---- MODULE Spec2Model ----
(***************************************************************************)
(* Model of job_scraper.py: one scrape cycle (scrape_jobs) lists the       *)
(* subscribers, scrapes every configured company, and for every user       *)
(* checks each posting of the followed companies against the 'jobs'        *)
(* collection, inserting the absent ones and mailing them to that user.    *)
(***************************************************************************)
EXTENDS Bags, FiniteSets, Integers, Sequences, TLC

(* ---------- bounds ---------- *)

\* number of scrape_jobs runs in one behaviour
MaxCycles == 2
\* largest number of user documents in the 'users' collection
MaxUsers == 2

(* ---------- the world outside the script ---------- *)

\* processes that may run the script (the second one only runs when
\* overlapping invocations are allowed)
Procs == {1, 2}

\* COMPANIES of greenhouse_scraper, in dict iteration order
COMPANIES == <<"Acme", "Globex">>

CompanyNames == {COMPANIES[i] : i \in 1..Len(COMPANIES)}

JobIds == {"a1", "a2", "g1"}

\* a job dict as scrape_greenhouse_jobs builds it
Job(id, company, title, location, url) ==
    [job_id |-> id, company |-> company, title |-> title,
     location |-> location, url |-> url]

a1  == Job("a1", "Acme", "PM", "NY", "u1")
\* the same posting after the employer edited it
a1b == Job("a1", "Acme", "Senior PM", "SF", "u1b")
a2  == Job("a2", "Acme", "Group PM", "NY", "u2")
g1  == Job("g1", "Globex", "PM", "LA", "u3")

\* what a career page may return in one cycle
Snapshots(company) ==
    IF company = "Acme" THEN {<<>>, <<a1>>, <<a2>>, <<a1, a2>>, <<a1, a1b>>}
    ELSE IF company = "Globex" THEN {<<>>, <<g1>>}
    ELSE {<<>>}

\* what one call of the Posting Source may do: answer with a snapshot, or
\* fail while the page still lists postings
Outcomes(company) ==
    {[ok |-> TRUE, jobs |-> s] : s \in Snapshots(company)}
    \cup {[ok |-> FALSE, jobs |-> s] :
              s \in {t \in Snapshots(company) :
                        \A r \in Snapshots(company) : Len(r) <= Len(t)}}

\* the 'companies' field a user document may hold
CompanyLists ==
    {<<>>, <<"Acme">>, <<"Globex">>, <<"Globex", "Acme">>,
     <<"Acme", "Initech", "Acme">>}

UserIds == 1..MaxUsers

\* the dict get_user_preferences builds for one user document
User(i, companies) ==
    [id |-> i, name |-> <<"name", i>>, email |-> <<"mail", i>>,
     companies |-> companies]

\* the possible contents of the 'users' collection, in stream order
Directories ==
    UNION {{[i \in 1..n |-> User(i, cl[i])] : cl \in [1..n -> CompanyLists]}
           : n \in 0..MaxUsers}

(* ---------- pure parts of the script ---------- *)

Range(s) == {s[i] : i \in 1..Len(s)}

EmptyMap == [c \in {} |-> <<>>]

\* get_user_preferences: the list of users, or the exception of the stream
GetUserPreferencesSwallowed(dir, ok) == [raised |-> FALSE, users |-> dir]

GetUserPreferences(dir, ok) ==
    IF ok THEN [raised |-> FALSE, users |-> dir]
    ELSE [raised |-> TRUE, users |-> <<>>]

\* 'if not users'
NoUsersNever(us) == FALSE

NoUsers(us) == Len(us) = 0

\* scrape_greenhouse_jobs: fails softly, an empty list
ScrapeGreenhouseJobs(company, outcome) ==
    IF outcome.ok THEN outcome.jobs ELSE <<>>

\* 'for company_name, board_token in COMPANIES.items()': the next index
NextCompanyStopOnFailure(n, outcome) ==
    IF outcome.ok THEN n + 1 ELSE Len(COMPANIES) + 1

NextCompany(n, outcome) == n + 1

\* 'for company in user['companies']'
CompaniesOfEveryone(user) == COMPANIES

CompaniesOf(user) == user.companies

\* db.collection('jobs').where('job_id', '==', id).get()
QueryNothing(st, id) == {}

Query(st, id) == {r \in BagToSet(st) : r.job_id = id}

\* db.collection('jobs').add(job)
AddNothing(st, job) == st

AddOverwriting(st, job) == SetToBag({job})

Add(st, job) == st (+) SetToBag({job})

\* 'if user_new_jobs'
HasNewJobsAlways(jobs) == TRUE

HasNewJobs(jobs) == jobs # <<>>

\* the try/except of send_email_notification: does the failure propagate
NotifyRaisesOnFailure(ok) == ~ok

NotifyRaises(ok) == FALSE

\* the code points of the company names, which Python compares one by one
CodePoints(name) ==
    IF name = "Acme" THEN <<65, 99, 109, 101>>
    ELSE IF name = "Globex" THEN <<71, 108, 111, 98, 101, 120>>
    ELSE <<73, 110, 105, 116, 101, 99, 104>>

\* s < t for two Python strings
RECURSIVE LexLess(_, _)
LexLess(s, t) ==
    IF t = <<>> THEN FALSE
    ELSE IF s = <<>> THEN TRUE
    ELSE IF Head(s) # Head(t) THEN Head(s) < Head(t)
    ELSE LexLess(Tail(s), Tail(t))

StrLess(a, b) == LexLess(CodePoints(a), CodePoints(b))

\* the keys of the dict 'companies' of create_html_table, in insertion order
RECURSIVE CompanyKeys(_)
CompanyKeys(jobs) ==
    IF jobs = <<>> THEN <<>>
    ELSE LET front == CompanyKeys(SubSeq(jobs, 1, Len(jobs) - 1))
             c == jobs[Len(jobs)].company
         IN IF c \in {front[i] : i \in 1..Len(front)} THEN front
            ELSE Append(front, c)

\* sorted(companies.keys())
SortedNot(keys) == keys

RECURSIVE Sorted(_)
Sorted(keys) ==
    IF keys = <<>> THEN <<>>
    ELSE LET ks == {keys[i] : i \in 1..Len(keys)}
             least == CHOOSE k \in ks : \A o \in ks : ~StrLess(o, k)
             NotLeast(k) == k # least
         IN <<least>> \o Sorted(SelectSeq(keys, NotLeast))

\* the rows create_html_table writes after the column titles: per company in
\* sorted order a header row, then one row per job of that company
CreateHtmlTable(jobs) ==
    LET order == Sorted(CompanyKeys(jobs))
        Group(c) == LET Of(job) == job.company = c IN SelectSeq(jobs, Of)
        Rows(js) == [i \in 1..Len(js) |->
                        [kind |-> "row",
                         cells |-> <<js[i].title, js[i].location, js[i].url>>]]
        RECURSIVE Table(_)
        Table(n) ==
            IF n > Len(order) THEN <<>>
            ELSE <<[kind |-> "company-header", cells |-> <<order[n]>>]>>
                 \o Rows(Group(order[n])) \o Table(n + 1)
    IN Table(1)

\* the blocks of the plain text part, one per job, in list order
TextContent(jobs) ==
    [i \in 1..Len(jobs) |->
        <<jobs[i].company, jobs[i].title, jobs[i].location, jobs[i].url>>]

\* positions <<ci, ji>> of the postings the loops of lines 54-57 visit
Positions(user, aj) ==
    UNION {{<<c, j>> : j \in 1..Len(aj[CompaniesOf(user)[c]])}
           : c \in {k \in 1..Len(CompaniesOf(user)) :
                        CompaniesOf(user)[k] \in DOMAIN aj}}

Before(q1, q2) == q1[1] < q2[1] \/ (q1[1] = q2[1] /\ q1[2] < q2[2])

\* the positions still to visit after <<c, j>>
RestNone(user, aj, c, j) == {}

Rest(user, aj, c, j) == {q \in Positions(user, aj) : Before(<<c, j>>, q)}

First(qs) == CHOOSE q \in qs : \A r \in qs : r = q \/ Before(q, r)

\* number of documents of the collection with this job_id
Copies(st, id) ==
    LET RECURSIVE Sum(_)
        Sum(S) == IF S = {} THEN 0
                  ELSE LET r == CHOOSE x \in S : TRUE
                       IN CopiesIn(r, st) + Sum(S \ {r})
    IN Sum({r \in BagToSet(st) : r.job_id = id})

StoredIds(st) == {r.job_id : r \in BagToSet(st)}

(* ---------- state ---------- *)

VARIABLES
    store,          \* the 'jobs' collection, a bag of job dicts
    cycles,         \* number of runs started so far
    handed,         \* per user and job_id, times handed to the notifier
    lost,           \* job_ids of the mails of earlier runs that failed
    unfollowed,     \* job_ids earlier runs scraped for a company that no
                    \* user followed, and that are not stored
    overlap,        \* may two runs overlap
    pc,             \* per process, position in scrape_jobs
    err,            \* per process, what raised in this run
    users,          \* per process, local 'users'
    all_jobs,       \* per process, local 'all_jobs'
    failed,         \* per process, companies whose scrape failed
    cn,             \* per process, index of the company being scraped
    ui, ci, ji,     \* per process, indices of the user/company/job loops
    user_new_jobs,  \* per process, local 'user_new_jobs'
    job_ref,        \* per process, result of the existence query
    sent,           \* per process, notifier calls of this run
    store0          \* per process, the collection when the run began

vars == <<store, cycles, handed, lost, unfollowed, overlap, pc, err, users, all_jobs, failed,
          cn, ui, ci, ji, user_new_jobs, job_ref, sent, store0>>

Stopped == {"idle", "returned", "raised"}

InitCommon ==
    /\ store = EmptyBag
    /\ cycles = 0
    /\ handed = [u \in UserIds, id \in JobIds |-> 0]
    /\ lost = {}
    /\ unfollowed = {}
    /\ pc = [p \in Procs |-> "idle"]
    /\ err = [p \in Procs |-> "none"]
    /\ users = [p \in Procs |-> <<>>]
    /\ all_jobs = [p \in Procs |-> EmptyMap]
    /\ failed = [p \in Procs |-> {}]
    /\ cn = [p \in Procs |-> 0]
    /\ ui = [p \in Procs |-> 0]
    /\ ci = [p \in Procs |-> 0]
    /\ ji = [p \in Procs |-> 0]
    /\ user_new_jobs = [p \in Procs |-> <<>>]
    /\ job_ref = [p \in Procs |-> {}]
    /\ sent = [p \in Procs |-> <<>>]
    /\ store0 = [p \in Procs |-> EmptyBag]

Init == InitCommon /\ overlap = FALSE

\* the script started by a scheduler that may or may not let two runs overlap
InitAnySchedule == InitCommon /\ overlap \in BOOLEAN

\* overlapping runs are explored over the inputs the race needs: one user
\* following Acme, whose page lists a1, alone or before a2, while the page
\* of Globex lists nothing
InputDirectories ==
    IF overlap THEN {<<User(1, <<"Acme">>)>>} ELSE Directories

InputOutcomes(company) ==
    IF overlap
    THEN {o \in Outcomes(company) :
              o.ok /\ o.jobs \in {<<>>, <<a1>>, <<a1, a2>>}
                   /\ (company = "Acme" => o.jobs # <<>>)}
    ELSE Outcomes(company)

(* ---------- control ---------- *)

\* the user, company and job dict the loops are at
CurUser(p) == users[p][ui[p]]
CurCompany(p) == CompaniesOf(CurUser(p))[ci[p]]
CurJob(p) == all_jobs[p][CurCompany(p)][ji[p]]

\* the job_ids of the mails of this run that failed
FailedMailIds(p) ==
    UNION {{sent[p][k].jobs[i].job_id : i \in 1..Len(sent[p][k].jobs)}
           : k \in {n \in 1..Len(sent[p]) : ~sent[p][n].ok}}

\* the job_ids this run scraped for the companies none of its users follows
ScrapedUnfollowed(p) ==
    LET nobodys == {c \in DOMAIN all_jobs[p] :
                       \A i \in 1..Len(users[p]) :
                           c \notin Range(users[p][i].companies)}
    IN UNION {{all_jobs[p][c][j].job_id : j \in 1..Len(all_jobs[p][c])}
              : c \in nobodys}

\* move to the first posting of user u at or after the positions qs, or to
\* line 66 when none is left; past the last user the function returns
Goto(p, u, qs) ==
    IF u > Len(users[p])
    THEN /\ pc' = [pc EXCEPT ![p] = "returned"]
         /\ ui' = [ui EXCEPT ![p] = u]
         /\ ci' = [ci EXCEPT ![p] = 0]
         /\ ji' = [ji EXCEPT ![p] = 0]
    ELSE IF qs = {}
    THEN /\ pc' = [pc EXCEPT ![p] = "send"]
         /\ ui' = [ui EXCEPT ![p] = u]
         /\ ci' = [ci EXCEPT ![p] = 0]
         /\ ji' = [ji EXCEPT ![p] = 0]
    ELSE /\ pc' = [pc EXCEPT ![p] = "check"]
         /\ ui' = [ui EXCEPT ![p] = u]
         /\ ci' = [ci EXCEPT ![p] = First(qs)[1]]
         /\ ji' = [ji EXCEPT ![p] = First(qs)[2]]

\* the exception leaves scrape_jobs
Raise(p, what) ==
    /\ pc' = [pc EXCEPT ![p] = "raised"]
    /\ err' = [err EXCEPT ![p] = what]

(* ---------- actions ---------- *)

\* lines 36-42: a run begins, lists the users and returns when there is none
StartCycle(p) ==
    /\ pc[p] \in Stopped
    /\ cycles < MaxCycles
    /\ \/ overlap
       \/ p = 1 /\ \A q \in Procs : pc[q] \in Stopped
    /\ cycles' = cycles + 1
    /\ store0' = [store0 EXCEPT ![p] = store]
    /\ lost' = lost \cup FailedMailIds(p)
    /\ unfollowed' = (unfollowed \cup ScrapedUnfollowed(p)) \ StoredIds(store)
    /\ all_jobs' = [all_jobs EXCEPT ![p] = EmptyMap]
    /\ failed' = [failed EXCEPT ![p] = {}]
    /\ ui' = [ui EXCEPT ![p] = 0]
    /\ ci' = [ci EXCEPT ![p] = 0]
    /\ ji' = [ji EXCEPT ![p] = 0]
    /\ user_new_jobs' = [user_new_jobs EXCEPT ![p] = <<>>]
    /\ job_ref' = [job_ref EXCEPT ![p] = {}]
    /\ sent' = [sent EXCEPT ![p] = <<>>]
    /\ \E dir \in InputDirectories, ok \in BOOLEAN :
         LET r == GetUserPreferences(dir, ok) IN
         /\ users' = [users EXCEPT ![p] = r.users]
         /\ err' = [err EXCEPT ![p] = IF ok THEN "none" ELSE "directory"]
         /\ IF r.raised
            THEN /\ pc' = [pc EXCEPT ![p] = "raised"]
                 /\ cn' = [cn EXCEPT ![p] = 0]
            ELSE IF NoUsers(r.users)
            THEN /\ pc' = [pc EXCEPT ![p] = "returned"]
                 /\ cn' = [cn EXCEPT ![p] = 0]
            ELSE /\ pc' = [pc EXCEPT ![p] = "scrape"]
                 /\ cn' = [cn EXCEPT ![p] = 1]
    /\ UNCHANGED <<store, handed, overlap>>

\* lines 46-49: one company is scraped; after the last one the user loop
\* begins (lines 52-57)
ScrapeCompany(p) ==
    /\ pc[p] = "scrape"
    /\ LET company_name == COMPANIES[cn[p]] IN
       \E outcome \in InputOutcomes(company_name) :
         LET company_jobs == ScrapeGreenhouseJobs(company_name, outcome)
             aj == (company_name :> company_jobs) @@ all_jobs[p]
             n == NextCompany(cn[p], outcome)
         IN /\ all_jobs' = [all_jobs EXCEPT ![p] = aj]
            /\ failed' = [failed EXCEPT ![p] =
                   IF outcome.ok THEN @ ELSE @ \cup {company_name}]
            /\ cn' = [cn EXCEPT ![p] = n]
            /\ IF n <= Len(COMPANIES)
               THEN UNCHANGED <<pc, ui, ci, ji>>
               ELSE Goto(p, 1, IF users[p] = <<>> THEN {}
                                ELSE Positions(users[p][1], aj))
    /\ UNCHANGED <<store, cycles, handed, lost, unfollowed, overlap, err,
                   users, user_new_jobs, job_ref, sent, store0>>

\* lines 59-60: the existence query; a posting found is skipped
CheckJob(p) ==
    /\ pc[p] = "check"
    /\ \/ /\ Raise(p, "store")
          /\ UNCHANGED <<job_ref, ui, ci, ji>>
       \/ LET found == Query(store, CurJob(p).job_id) IN
          /\ job_ref' = [job_ref EXCEPT ![p] = found]
          /\ IF found = {}
             THEN /\ pc' = [pc EXCEPT ![p] = "insert"]
                  /\ UNCHANGED <<ui, ci, ji>>
             ELSE Goto(p, ui[p], Rest(CurUser(p), all_jobs[p], ci[p], ji[p]))
          /\ UNCHANGED err
    /\ UNCHANGED <<store, cycles, handed, lost, unfollowed, overlap, users,
                   all_jobs, failed, cn, user_new_jobs, sent, store0>>

\* lines 62-63: the posting is added to the collection and to the list
InsertJob(p) ==
    /\ pc[p] = "insert"
    /\ \/ /\ Raise(p, "store")
          /\ UNCHANGED <<store, user_new_jobs, ui, ci, ji>>
       \/ /\ store' = Add(store, CurJob(p))
          /\ user_new_jobs' =
                 [user_new_jobs EXCEPT ![p] = Append(@, CurJob(p))]
          /\ Goto(p, ui[p], Rest(CurUser(p), all_jobs[p], ci[p], ji[p]))
          /\ UNCHANGED err
    /\ UNCHANGED <<cycles, handed, lost, unfollowed, overlap, users,
                   all_jobs, failed, cn, job_ref, sent, store0>>

\* lines 65-70 and 171-216: the user's mail, when the list is not empty;
\* then the next user, whose list starts empty (line 53)
SendEmail(p) ==
    /\ pc[p] = "send"
    /\ LET next == ui[p] + 1
           qs == IF next > Len(users[p]) THEN {}
                 ELSE Positions(users[p][next], all_jobs[p])
       IN
       IF ~HasNewJobs(user_new_jobs[p])
       THEN /\ Goto(p, next, qs)
            /\ UNCHANGED <<sent, handed, err>>
       ELSE \E ok \in BOOLEAN :
            /\ sent' = [sent EXCEPT ![p] = Append(@,
                   [idx |-> ui[p], to |-> CurUser(p).email,
                    name |-> CurUser(p).name, jobs |-> user_new_jobs[p],
                    subject |-> Len(user_new_jobs[p]),
                    text |-> TextContent(user_new_jobs[p]),
                    html |-> CreateHtmlTable(user_new_jobs[p]),
                    ok |-> ok])]
            /\ handed' = [k \in DOMAIN handed |->
                   IF k[1] = CurUser(p).id
                   THEN handed[k] + Cardinality(
                            {i \in 1..Len(user_new_jobs[p]) :
                                 user_new_jobs[p][i].job_id = k[2]})
                   ELSE handed[k]]
            /\ IF NotifyRaises(ok)
               THEN /\ Raise(p, "notify")
                    /\ UNCHANGED <<ui, ci, ji>>
               ELSE /\ Goto(p, next, qs)
                    /\ UNCHANGED err
    /\ user_new_jobs' = [user_new_jobs EXCEPT ![p] = <<>>]
    /\ UNCHANGED <<store, cycles, lost, unfollowed, overlap, users,
                   all_jobs, failed, cn, job_ref, store0>>

Next ==
    \E p \in Procs :
        \/ StartCycle(p)
        \/ ScrapeCompany(p)
        \/ CheckJob(p)
        \/ InsertJob(p)
        \/ SendEmail(p)

Spec == Init /\ [][Next]_vars

SpecAnySchedule == InitAnySchedule /\ [][Next]_vars

(* ---------- what a finished run shows ---------- *)

\* the run of process p went through all its users and returned
Completed(p) == pc[p] = "returned" /\ users[p] # <<>>

\* the job_ids of a list of job dicts
Ids(jobs) == {jobs[i].job_id : i \in 1..Len(jobs)}

\* the notifier calls of this run for the user at index i of 'users'
CallsFor(p, i) == {k \in 1..Len(sent[p]) : sent[p][k].idx = i}

\* the companies whose snapshot in this run lists the job_id
ListedBy(p, id) ==
    {c \in DOMAIN all_jobs[p] : id \in Ids(all_jobs[p][c])}

\* does the user follow the company
Follows(user, c) == c \in Range(user.companies)

(* ---------- properties ---------- *)

\* C1: the 'jobs' collection never holds two documents with the same
\* job_id, whatever the snapshots and the subscription lists of the
\* sequential runs were.
NoDuplicateStorage == \A id \in JobIds : Copies(store, id) <= 1

\* a second run ended in which a posting stored by the first run was
\* returned again for a followed company, and it is stored once
NoDuplicateStorageWitness ==
    /\ cycles = 2
    /\ Completed(1)
    /\ \E id \in StoredIds(store0[1]) :
         /\ \E c \in ListedBy(1, id) : \E i \in 1..Len(users[1]) :
                Follows(users[1][i], c)
         /\ Copies(store, id) = 1

\* the user at index i of this run follows a company whose snapshot lists id
FollowedListing(p, i, id) ==
    \E c \in ListedBy(p, id) : Follows(users[p][i], c)

\* every list of new jobs of this run: the one being built and the ones
\* already handed to the notifier
NewJobsLists(p) ==
    {user_new_jobs[p]} \cup {sent[p][k].jobs : k \in 1..Len(sent[p])}

\* C2: a posting stored by an earlier run (its job_id was in the collection
\* when this run began) is in no user's list of new jobs in this run, also
\* when the source returns it again and whoever follows its company now.
NotifiedOnlyInInsertCycle ==
    \A p \in Procs : \A jobs \in NewJobsLists(p) :
        Ids(jobs) \cap StoredIds(store0[p]) = {}

\* a second run ended that sent a mail, while a posting of the first run
\* was returned again for a company a user follows
NotifiedOnlyInInsertCycleWitness ==
    /\ cycles = 2
    /\ Completed(1)
    /\ sent[1] # <<>>
    /\ \E id \in StoredIds(store0[1]) : \E i \in 1..Len(users[1]) :
         FollowedListing(1, i, id)

\* C3: over all the sequential runs, a job_id is handed to the notifier for
\* a given user at most once, inside one mail and across mails.
AtMostOnceNotified == \A k \in DOMAIN handed : handed[k] <= 1

\* a user already mailed about a posting follows, in a later run that ended,
\* a company that returns the posting again
AtMostOnceNotifiedWitness ==
    /\ cycles = 2
    /\ Completed(1)
    /\ \E i \in 1..Len(users[1]) : \E id \in StoredIds(store0[1]) :
         /\ handed[users[1][i].id, id] = 1
         /\ FollowedListing(1, i, id)
\* the users of this run that follow a company whose snapshot lists id
Followers(p, id) ==
    {i \in 1..Len(users[p]) : FollowedListing(p, i, id)}

\* the job_ids the notifier got in this run for the user at index i
HandedTo(p, i) == UNION {Ids(sent[p][k].jobs) : k \in CallsFor(p, i)}

RelevantTo(p, i, job) ==
    /\ \E c \in Range(users[p][i].companies) \cap DOMAIN all_jobs[p] :
           job \in Range(all_jobs[p][c])
    /\ Range(users[p][i].companies) = {"Acme"} => job.company # "Globex"

RelevanceFilter ==
    \A p \in Procs :
        /\ \A k \in 1..Len(sent[p]) : \A job \in Range(sent[p][k].jobs) :
               RelevantTo(p, sent[p][k].idx, job)
        /\ \A job \in Range(user_new_jobs[p]) : RelevantTo(p, ui[p], job)

\* a user following only Acme was mailed in a run whose Globex snapshot
\* held a posting not stored before
RelevanceFilterWitness ==
    /\ Completed(1)
    /\ \E k \in 1..Len(sent[1]) :
           Range(users[1][sent[1][k].idx].companies) = {"Acme"}
    /\ "Globex" \in DOMAIN all_jobs[1]
    /\ Ids(all_jobs[1]["Globex"]) \ StoredIds(store0[1]) # {}

\* C6: when the listing succeeds with no user, the run has returned, the
\* collection is as it was when the run began and the notifier was not called.
NoSubscribersNoOp ==
    \A p \in Procs :
        (pc[p] # "idle" /\ err[p] # "directory" /\ users[p] = <<>>) =>
            /\ pc[p] = "returned"
            /\ store = store0[p]
            /\ sent[p] = <<>>

\* a run found no user while the collection already held postings
NoSubscribersNoOpWitness ==
    /\ pc[1] = "returned"
    /\ err[1] = "none"
    /\ users[1] = <<>>
    /\ store # EmptyBag

\* C7: once the scraping loop is over every configured company has an entry
\* in all_jobs, empty for a company whose scrape failed; and when the run
\* went through all its users, every posting of a company that did not fail
\* and that some user follows is stored, and was mailed to someone in this
\* run when it was not stored before.
ScrapeFailureIsolated ==
    \A p \in Procs :
        /\ (pc[p] \in {"check", "insert", "send"} \/ Completed(p)) =>
              /\ DOMAIN all_jobs[p] = CompanyNames
              /\ \A c \in failed[p] : all_jobs[p][c] = <<>>
        /\ Completed(p) =>
              \A c \in CompanyNames \ failed[p] :
                  \A id \in Ids(all_jobs[p][c]) :
                      (\E i \in 1..Len(users[p]) : Follows(users[p][i], c)) =>
                          /\ id \in StoredIds(store)
                          /\ id \notin StoredIds(store0[p]) =>
                                 \E i \in 1..Len(users[p]) :
                                     id \in HandedTo(p, i)

\* the scrape of Acme failed and a posting of Globex was stored and mailed
\* in the same run
ScrapeFailureIsolatedWitness ==
    /\ Completed(1)
    /\ failed[1] = {"Acme"}
    /\ \E i \in 1..Len(users[1]) : "g1" \in HandedTo(1, i)
    /\ "g1" \in StoredIds(store) \ StoredIds(store0[1])

\* C8: a failure of the existence query or of the insert does not abort
\* the run.
StoreFailureIsolated ==
    \A p \in Procs : err[p] = "store" => pc[p] # "raised"

\* the step in which the mail of the current user fails
NotifyFailureStep(p) ==
    /\ Len(sent'[p]) = Len(sent[p]) + 1
    /\ ~sent'[p][Len(sent'[p])].ok

\* C9: the step in which a user's mail fails raises nothing, leaves the
\* collection as it is and moves on to the next user, at the existence
\* query of its first posting or at its mail; after the last user the run
\* returns.
NotifyFailureIsolated ==
    [][\A p \in Procs : NotifyFailureStep(p) =>
           /\ store' = store
           /\ err'[p] = err[p]
           /\ ui'[p] = ui[p] + 1
           /\ pc'[p] = IF ui'[p] > Len(users[p]) THEN "returned"
                       ELSE IF Positions(users[p][ui'[p]], all_jobs[p]) = {}
                       THEN "send" ELSE "check"]_vars

\* the mail of the first user failed and the second user was mailed
NotifyFailureIsolatedWitness ==
    /\ Completed(1)
    /\ \E k \in CallsFor(1, 1) : ~sent[1][k].ok
    /\ \E k \in CallsFor(1, 2) : sent[1][k].ok

\* C10: when the listing of the users fails the run has raised with no
\* company scraped, the collection as it was when the run began and no call
\* of the notifier.
DirectoryFailureClean ==
    \A p \in Procs : err[p] = "directory" =>
        /\ pc[p] = "raised"
        /\ all_jobs[p] = EmptyMap
        /\ store = store0[p]
        /\ sent[p] = <<>>

\* the listing failed in a run that began with postings in the collection
DirectoryFailureCleanWitness ==
    /\ err[1] = "directory"
    /\ pc[1] = "raised"
    /\ store # EmptyBag

\* C11: no step removes a document from the 'jobs' collection: every job
\* dict keeps at least its number of copies, so the stored job_ids after a
\* step include the ones before it.
StoreGrowsMonotonically ==
    [][/\ StoredIds(store) \subseteq StoredIds(store')
       /\ \A r \in BagToSet(store) : CopiesIn(r, store') >= CopiesIn(r, store)
      ]_vars

\* a run that began with postings in the collection has inserted another one
StoreGrowsMonotonicallyWitness ==
    /\ store0[1] # EmptyBag
    /\ StoredIds(store0[1]) \subseteq StoredIds(store)
    /\ StoredIds(store) # StoredIds(store0[1])

\* C12 as stated: while an existence query or an insert is still to come in
\* a run, the notifier has not been called in that run.
NotifyAfterAllUsers ==
    \A p \in Procs : sent[p] # <<>> => pc[p] \notin {"check", "insert"}

\* C12 as the code has it: the notifier is called for a user only when that
\* user's own pass is over: every posting of the snapshots of the companies
\* the user follows is in the collection by then, and the queries and
\* inserts still to come belong to later users.
NotifyAfterOwnPass ==
    \A p \in Procs : \A k \in 1..Len(sent[p]) :
        /\ pc[p] \in {"check", "insert", "send"} => sent[p][k].idx < ui[p]
        /\ \A id \in JobIds :
               FollowedListing(p, sent[p][k].idx, id) =>
                   id \in StoredIds(store)

\* the first user was mailed and the run is at the existence query of a
\* posting of the second user
NotifyAfterOwnPassWitness ==
    /\ pc[1] = "check"
    /\ ui[1] = 2
    /\ CallsFor(1, 1) # {}

\* the postings of an HTML table in row order, each with the company of the
\* header row above it
HtmlPostings(html) ==
    LET RECURSIVE Walk(_, _)
        Walk(i, company) ==
            IF i > Len(html) THEN <<>>
            ELSE IF html[i].kind = "company-header"
            THEN Walk(i + 1, html[i].cells[1])
            ELSE <<(<<company>> \o html[i].cells)>> \o Walk(i + 1, company)
    IN Walk(1, "")

\* a rendering lists the jobs grouped by company in ascending order and,
\* inside a company, in the order of the list of new jobs
GroupedAscending(postings, jobs) ==
    /\ Len(postings) = Len(jobs)
    /\ \A i, j \in 1..Len(postings) :
           i < j => ~StrLess(postings[j][1], postings[i][1])
    /\ \A c \in CompanyNames :
           LET Of(x) == x[1] = c
           IN SelectSeq(postings, Of) = SelectSeq(TextContent(jobs), Of)

\* C13 as stated: the posting sequence of every notification, in its HTML
\* table and in its plain text, is grouped by company in ascending order.
GroupingOrder ==
    \A p \in Procs : \A k \in 1..Len(sent[p]) :
        /\ GroupedAscending(HtmlPostings(sent[p][k].html), sent[p][k].jobs)
        /\ GroupedAscending(sent[p][k].text, sent[p][k].jobs)

\* C13 as the code has it: the HTML table is grouped by company in
\* ascending order, inside a company in list order; the plain text lists
\* the jobs in the order of the list of new jobs.
HtmlGroupingOrder ==
    \A p \in Procs : \A k \in 1..Len(sent[p]) :
        /\ GroupedAscending(HtmlPostings(sent[p][k].html), sent[p][k].jobs)
        /\ Len(sent[p][k].text) = Len(sent[p][k].jobs)
        /\ \A i \in 1..Len(sent[p][k].jobs) :
               /\ sent[p][k].text[i][1] = sent[p][k].jobs[i].company
               /\ sent[p][k].text[i][2] = sent[p][k].jobs[i].title

\* a mail whose list holds a Globex job before two Acme jobs
HtmlGroupingOrderWitness ==
    \E k \in 1..Len(sent[1]) :
        /\ Len(sent[1][k].jobs) = 3
        /\ sent[1][k].jobs[1].company = "Globex"
        /\ sent[1][k].jobs[2].company = "Acme"
        /\ HtmlPostings(sent[1][k].html)[3][1] = "Globex"

\* C14: from an empty collection, with Acme returning one posting a1 and
\* Globex none, the first user following Acme and the second Globex, a run
\* that ends without failure leaves exactly a1 in the collection and has
\* called the notifier once, for the first user with the list <<a1>>.
ScenarioStart(p) ==
    /\ store0[p] = EmptyBag
    /\ users[p] = <<User(1, <<"Acme">>), User(2, <<"Globex">>)>>
    /\ failed[p] = {}
    /\ DOMAIN all_jobs[p] = CompanyNames
    /\ all_jobs[p]["Acme"] = <<a1>>
    /\ all_jobs[p]["Globex"] = <<>>

ConcreteScenario ==
    \A p \in Procs : (ScenarioStart(p) /\ Completed(p)) =>
        /\ store = SetToBag({a1})
        /\ Len(sent[p]) = 1
        /\ sent[p][1].idx = 1
        /\ sent[p][1].to = User(1, <<"Acme">>).email
        /\ sent[p][1].jobs = <<a1>>
        /\ CallsFor(p, 2) = {}

\* the run of the scenario has ended
ConcreteScenarioWitness ==
    /\ ScenarioStart(1)
    /\ Completed(1)
    /\ store # EmptyBag

\* the step in which the run of process p leaves line 66 for its user
LeavesSend(p) == pc[p] = "send" /\ ui'[p] # ui[p]

\* C16: the notifier is called for a user exactly when the user's list is
\* not empty at the end of the user's pass, with that list, and raising
\* nothing when the list is empty; no other step calls it; and a run calls
\* it at most once per user.
NotifiedIffNewJobs ==
    /\ [](\A p \in Procs : \A i \in 1..Len(users[p]) :
             Cardinality(CallsFor(p, i)) <= 1)
    /\ [][\A p \in Procs :
             /\ LeavesSend(p) =>
                   IF user_new_jobs[p] # <<>>
                   THEN /\ Len(sent'[p]) = Len(sent[p]) + 1
                        /\ SubSeq(sent'[p], 1, Len(sent[p])) = sent[p]
                        /\ sent'[p][Len(sent'[p])].idx = ui[p]
                        /\ sent'[p][Len(sent'[p])].jobs = user_new_jobs[p]
                   ELSE /\ sent'[p] = sent[p]
                        /\ err'[p] = err[p]
                        /\ pc'[p] # "raised"
             /\ ~LeavesSend(p) => (sent'[p] = sent[p] \/ sent'[p] = <<>>)
       ]_vars

\* a run ended in which one user was mailed and the other, whose list was
\* empty, was not
NotifiedIffNewJobsWitness ==
    /\ Completed(1)
    /\ Len(users[1]) = 2
    /\ Len(sent[1]) = 1

\* the postings of this run's snapshots whose job_id was stored when the run
\* began, with a title, location or url other than the stored ones, for a
\* company that a user of the run follows
EditedPostings(p) ==
    {job \in UNION {Range(all_jobs[p][c]) : c \in DOMAIN all_jobs[p]} :
        /\ job.job_id \in StoredIds(store0[p])
        /\ job \notin BagToSet(store0[p])
        /\ \E i \in 1..Len(users[p]) : Follows(users[p][i], job.company)}

\* C17: a posting returned with a job_id already stored but other fields
\* leaves the stored documents of that job_id as they were, is not inserted
\* and is in no list of new jobs of the run.
ExistingNotUpdated ==
    \A p \in Procs : \A job \in EditedPostings(p) :
        /\ {r \in BagToSet(store) : r.job_id = job.job_id}
               = {r \in BagToSet(store0[p]) : r.job_id = job.job_id}
        /\ Copies(store, job.job_id) = Copies(store0[p], job.job_id)
        /\ job \notin BagToSet(store)
        /\ \A jobs \in NewJobsLists(p) : job \notin Range(jobs)

\* a run ended whose Acme snapshot held an edited version of a stored
\* posting
ExistingNotUpdatedWitness ==
    /\ Completed(1)
    /\ a1 \in BagToSet(store0[1])
    /\ a1b \in EditedPostings(1)

\* the job_id is in the list of new jobs of the user at index i of this run
InListOf(p, i, id) ==
    \/ id \in HandedTo(p, i)
    \/ i = ui[p] /\ id \in Ids(user_new_jobs[p])

\* C18: in a sequential run a job_id is in the list of new jobs of one user
\* only, the first user in directory order that follows a company whose
\* snapshot lists it; and the job_ids of all the lists of the run are the
\* job_ids the run has inserted.
FirstSubscriberWins ==
    \A p \in Procs : pc[p] # "idle" =>
        /\ \A id \in JobIds : \A i \in 1..Len(users[p]) :
               InListOf(p, i, id) =>
                   /\ i \in Followers(p, id)
                   /\ \A j \in Followers(p, id) : i <= j
        /\ UNION {Ids(jobs) : jobs \in NewJobsLists(p)}
               = StoredIds(store) \ StoredIds(store0[p])

\* two users follow Acme and the run ended with a posting of Acme in the
\* first user's mail only
FirstSubscriberWinsWitness ==
    /\ Completed(1)
    /\ \E id \in JobIds :
          /\ Followers(1, id) = {1, 2}
          /\ id \in HandedTo(1, 1)
          /\ id \notin HandedTo(1, 2)

\* C19: the postings of a mail that failed in an earlier run are in the
\* collection and are in no list of new jobs of a later run, for any user.
FailedNeverRetried ==
    \A id \in lost :
        /\ id \in StoredIds(store)
        /\ \A p \in Procs : \A jobs \in NewJobsLists(p) : id \notin Ids(jobs)

\* a later run ended in which a user follows a company that returns again a
\* posting of a mail that had failed
FailedNeverRetriedWitness ==
    /\ Completed(1)
    /\ \E id \in lost : Followers(1, id) # {}

\* C20: a run inserts a posting only when one of its users follows a company
\* whose snapshot lists it; a posting scraped for a company nobody follows
\* is in no list of the run; and a posting that earlier runs left unstored
\* for that reason is inserted and mailed by the run that ends with a user
\* following a company that still returns it.
OnlyFollowedStored ==
    \A p \in Procs : pc[p] # "idle" =>
        /\ \A id \in StoredIds(store) \ StoredIds(store0[p]) :
               Followers(p, id) # {}
        /\ \A id \in JobIds : Followers(p, id) = {} =>
               \A jobs \in NewJobsLists(p) : id \notin Ids(jobs)
        /\ Completed(p) =>
               \A id \in unfollowed : Followers(p, id) # {} =>
                   /\ id \in StoredIds(store) \ StoredIds(store0[p])
                   /\ \E i \in 1..Len(users[p]) : id \in HandedTo(p, i)

\* a posting that an earlier run scraped with no follower was inserted and
\* mailed by a later run
OnlyFollowedStoredWitness ==
    /\ Completed(1)
    /\ \E id \in unfollowed :
          /\ Followers(1, id) # {}
          /\ \E i \in 1..Len(users[1]) : id \in HandedTo(1, i)

\* the processes whose current run has the job_id in a list of new jobs
Listing(id) ==
    {p \in Procs : \E jobs \in NewJobsLists(p) : id \in Ids(jobs)}

\* C15: the existence query and the insert are two steps. When runs do not
\* overlap, a run at its insert still finds the job_id absent and no job_id
\* is stored twice; when they overlap this is not so, and a job_id that two
\* runs have both put in a list of new jobs is stored at least twice.
RaceOnlyWhenOverlapping ==
    /\ ~overlap =>
          /\ \A p \in Procs : pc[p] = "insert" =>
                 CurJob(p).job_id \notin StoredIds(store)
          /\ \A id \in JobIds :
                 Copies(store, id) <= 1 /\ Cardinality(Listing(id)) <= 1
    /\ \A id \in JobIds :
          Cardinality(Listing(id)) >= 2 => Copies(store, id) >= 2

\* two overlapping runs have ended, each with a1 in its mail, and the
\* collection holds two documents for a1
RaceOnlyWhenOverlappingWitness ==
    /\ overlap
    /\ Completed(1) /\ Completed(2)
    /\ "a1" \in HandedTo(1, 1) /\ "a1" \in HandedTo(2, 1)
    /\ Copies(store, "a1") = 2
====
